---- MODULE Spec2Model ----
(***************************************************************************)
(* CPU sampling / smoothing / alerting engine of the monitor cpu plugin.   *)
(* The sampling goroutine started by New, the ring-buffered sample type,   *)
(* the counter rate calculator and the Reporter's Collect are modelled.    *)
(* A float64 is the exact rational <<n, d>> it holds; <<0, 0>> is NaN.      *)
(* An operation whose exact result n/d binary64 has to round yields         *)
(* <<n, d, 1>>, the float64 nearest to n/d, of which only the integer part  *)
(* is taken; arithmetic on such a value yields Unrep, a value this model    *)
(* does not follow. Float64Exact states that no state holds either kind:    *)
(* durations are whole seconds, alpha, the rates and the values fed dyadic. *)
(***************************************************************************)
EXTENDS Integers, Sequences, FiniteSets, TLC

VARIABLES cfg, pc, idx, mux, previous, current, currentTotal, previousTotal,
          averages, updaters, avg, alertCount, resolveCount, triggered,
          lastUpdate, now, kernel, rpc, ridx,
          ticks, readOk, failedBefore, hist, events, added, rseen,
          postResult, buffered, fed

vars == <<cfg, pc, idx, mux, previous, current, currentTotal, previousTotal,
          averages, updaters, avg, alertCount, resolveCount, triggered,
          lastUpdate, now, kernel, rpc, ridx,
          ticks, readOk, failedBefore, hist, events, added, rseen,
          postResult, buffered, fed>>

\* ---------------------------------------------------------------- bounds
\* ticks of the sampling loop followed when it runs alone / beside a Reporter
MaxTicks == 7
MaxConcTicks == 3
MaxCooldown == 3
MaxPostDelay == 2
\* a sample on its own: add calls followed, and the configured durations
MaxAdds == 7
MaxInterval == 8
MaxCapacity == 4
MaxRingRate == 3

\* ------------------------------------------------------- program constants
userGauge == 0
systemGauge == 1
idleGauge == 2
niceGauge == 3
Gauges == <<userGauge, systemGauge, idleGauge>>
DebounceLimit == 3

\* ------------------------------------------------------------ float64
RECURSIVE GCD(_, _)
GCD(a, b) == IF b = 0 THEN a ELSE GCD(b, a % b)

Abs(x) == IF x < 0 THEN -x ELSE x

Norm(n, d) ==
  IF d = 0 THEN <<0, 0>>
  ELSE LET s == IF d < 0 THEN -1 ELSE 1
           g == GCD(Abs(n), Abs(d))
       IN  <<(s * n) \div g, (s * d) \div g>>

R(n) == <<n, 1>>
NaN == <<0, 0>>
\* the result of arithmetic on a rounded operand: not followed
Unrep == <<1, 0>>
IsNaN(a) == a = NaN
\* the float64 nearest to n/d, n/d not a float64 itself
Near(a) == <<a[1], a[2], 1>>
IsNear(a) == Len(a) = 3
\* a float64 whose exact value the pair is
IsExact(a) == Len(a) = 2 /\ a[2] # 0

RECURSIVE IsPow2(_)
IsPow2(d) == d = 1 \/ (d > 1 /\ d % 2 = 0 /\ IsPow2(d \div 2))

\* the correctly rounded float64 of the exact result a: a itself when its
\* denominator is a power of two (numerators stay far below 2^53)
F64(a) == IF a[2] = 0 \/ IsPow2(a[2]) THEN a ELSE Near(a)

RAdd(a, b) == IF IsNaN(a) \/ IsNaN(b) THEN NaN
              ELSE IF ~IsExact(a) \/ ~IsExact(b) THEN Unrep
              ELSE F64(Norm(a[1] * b[2] + b[1] * a[2], a[2] * b[2]))
RSub(a, b) == IF IsNaN(a) \/ IsNaN(b) THEN NaN
              ELSE IF ~IsExact(a) \/ ~IsExact(b) THEN Unrep
              ELSE F64(Norm(a[1] * b[2] - b[1] * a[2], a[2] * b[2]))
RMul(a, b) == IF IsNaN(a) \/ IsNaN(b) THEN NaN
              ELSE IF ~IsExact(a) \/ ~IsExact(b) THEN Unrep
              ELSE F64(Norm(a[1] * b[1], a[2] * b[2]))
\* x / y on float64; the only zero divisor the engine can meet is 0 / 0
RDiv(a, b) == IF IsNaN(a) \/ IsNaN(b) THEN NaN
              ELSE IF ~IsExact(a) \/ ~IsExact(b) THEN Unrep
              ELSE IF b[1] = 0 THEN NaN
              ELSE F64(Norm(a[1] * b[2], a[2] * b[1]))
\* a >= b on float64 values held exactly; false when either side is NaN
RGeq(a, b) == IsExact(a) /\ IsExact(b) /\ a[1] * b[2] >= b[1] * a[2]
\* int64(f) for f >= 0; the float64 nearest to a quotient n/d of small
\* whole numbers has the integer part of n/d
Trunc(a) == a[1] \div a[2]

RECURSIVE SumSeq(_)
SumSeq(s) == IF s = <<>> THEN 0 ELSE Head(s) + SumSeq(Tail(s))

RECURSIVE RSumSeq(_)
RSumSeq(s) == IF s = <<>> THEN R(0) ELSE RAdd(Head(s), RSumSeq(Tail(s)))

\* ------------------------------------------------------------- sample
newSample(alpha, ringSize) ==
  [alpha |-> alpha, expMovingAvg |-> R(0),
   values |-> [i \in 1..Trunc(ringSize) |-> R(0)],
   position |-> 0, filled |-> FALSE]

\* s.values[s.position] and % len(s.values) fault on an empty ring
addPanics(s) == Len(s.values) = 0

\* the first-sample branch taken again whenever the ring has wrapped
addEmaResetOnWrap(s, v) ==
  IF s.position = 0 THEN v
  ELSE RAdd(RMul(v, s.alpha), RMul(s.expMovingAvg, RSub(R(1), s.alpha)))

addEma(s, v) ==
  IF s.position = 0 /\ ~s.filled THEN v
  ELSE RAdd(RMul(v, s.alpha), RMul(s.expMovingAvg, RSub(R(1), s.alpha)))

\* the sample as the fault of line 46 leaves it: expMovingAvg already set
addFaulted(s, v) == [s EXCEPT !.expMovingAvg = addEma(s, v)]

add(s, v) ==
  LET p == (s.position + 1) % Len(s.values)
  IN  [s EXCEPT !.expMovingAvg = addEma(s, v),
                !.values = [s.values EXCEPT ![s.position + 1] = v],
                !.position = p,
                !.filled = IF p = 0 THEN TRUE ELSE s.filled]

subSetOf(s) ==
  IF s.filled THEN (Len(s.values) \div 2) + (Len(s.values) % 2)
  ELSE (s.position \div 2) + (s.position % 2)

\* the range taken from the ring size even before the ring is full
toRangeOfWholeRing(s) == Len(s.values) \div 2

toRangeOf(s) ==
  IF s.filled THEN Len(s.values) \div 2 ELSE s.position \div 2

\* s.values[i : i+subSet] faults when the slice end passes the ring
movingAvgPanics(s) ==
  Len(s.values) # 0 /\ toRangeOf(s) + subSetOf(s) > Len(s.values)

bucketAvg(s, i) ==
  RDiv(RSumSeq(SubSeq(s.values, i + 1, i + subSetOf(s))), R(subSetOf(s)))

\* the bucket loop stopping one short (i < toRange)
movingAvgOneShort(s) ==
  IF Len(s.values) = 0 THEN R(0)
  ELSE RDiv(RSumSeq([k \in 1..toRangeOf(s) |-> bucketAvg(s, k - 1)]),
            R(toRangeOf(s)))

movingAvg(s) ==
  IF Len(s.values) = 0 THEN R(0)
  ELSE RDiv(RSumSeq([k \in 1..(toRangeOf(s) + 1) |-> bucketAvg(s, k - 1)]),
            R(toRangeOf(s) + 1))

\* ---------------------------------------------------------------- CPU
\* c.clear(): both snapshots and both totals dropped
clear == [current |-> <<>>, previous |-> <<>>, currentTotal |-> 0, previousTotal |-> 0]

\* c.previous[name] faults when current holds the category and previous does not
ratePanics(name, cur, prev) == name < Len(cur) /\ name >= Len(prev)

rate(name, cur, prev, curTotal, prevTotal) ==
  IF name >= Len(cur) THEN R(0)
  ELSE IF curTotal - prevTotal = 0 THEN R(0)
  ELSE RMul(RDiv(R(cur[name + 1] - prev[name + 1]), R(curTotal - prevTotal)), R(100))

\* --------------------------------------------------------- configuration
\* whole seconds, alpha = SampleRate / ReportingInterval dyadic
SampleRates == {1, 2}
ReportingIntervals == {2, 4}
\* one threshold below the busy rate, one equal to it
Thresholds == {R(50), R(75)}
Cooldowns == 0..MaxCooldown
Configs == [SampleRate : SampleRates, ReportingInterval : ReportingIntervals,
            Threshold : Thresholds, SlackInterval : Cooldowns]

\* counter increments the kernel can show between two reads: a stalled
\* clock (every rate 0) and a busy interval (user 75%, system 25%)
Deltas == {<<0, 0, 0, 0>>, <<3, 1, 0, 0>>}

\* The clock counts half seconds. A tick is received at its due time or a
\* half second late; a dispatch returns at once or after MaxPostDelay seconds
\* (the HTTP client gives up after 10).
Latencies == {0, 1}
PerSecond == Cardinality(Latencies)
ClockUnits(seconds) == seconds * PerSecond
PostDelays == {0, MaxPostDelay}

\* the ticker starts when the loop is entered; the wall clock is then far
\* past the zero time.Time
StartTime == ClockUnits(MaxCooldown + 1)
ZeroTime == 0

\* the first time after t at which the ticker of the given period fires
tickDue(t, period) ==
  StartTime + ((t - StartTime) \div ClockUnits(period) + 1) * ClockUnits(period)

cfgAlpha(c) == RDiv(R(c.SampleRate), R(c.ReportingInterval))
cfgRingSize(c) == RDiv(R(c.ReportingInterval), R(c.SampleRate))

Init ==
  /\ cfg \in Configs
  /\ pc = "start"
  /\ idx = 0
  /\ mux = "none"
  /\ previous = <<>> /\ current = <<>>
  /\ currentTotal = 0 /\ previousTotal = 0
  /\ averages = [g \in {userGauge, systemGauge, idleGauge} |->
                   IF g = userGauge THEN newSample(cfgAlpha(cfg), cfgRingSize(cfg))
                   ELSE newSample(cfgAlpha(cfg), R(1))]
  /\ updaters = [g \in {userGauge, systemGauge, idleGauge} |-> R(0)]
  /\ avg = R(0)
  /\ alertCount = 0 /\ resolveCount = 0
  /\ triggered = FALSE
  /\ lastUpdate = ZeroTime
  /\ now = StartTime
  /\ kernel = <<0, 0, 0, 0>>
  /\ rpc = "idle" /\ ridx = 0
  /\ ticks = 0 /\ readOk = FALSE /\ failedBefore = FALSE
  /\ hist = <<>> /\ events = <<>>
  /\ added = [g \in {userGauge, systemGauge, idleGauge} |-> 0]
  /\ rseen = <<>>
  /\ postResult = "none" /\ buffered = FALSE
  /\ fed = <<>>

\* ---------------------------------------------------------------- mutex
\* a Lock() that never waits
canLockAlways(m) == TRUE

canLock(m) == m = "none"

\* ------------------------------------------------- sampling goroutine
\* the Unlock moved behind the dispatch
succUnlockLate(p, emit) ==
  CASE p = "avg" -> "decide"
    [] p = "decide" -> IF emit THEN "post" ELSE "unlock"
    [] p = "post" -> "unlock"
    [] p = "unlock" -> "wait"

\* statement order of one loop iteration after the averages are fed
succ(p, emit) ==
  CASE p = "avg" -> "unlock"
    [] p = "unlock" -> "decide"
    [] p = "decide" -> IF emit THEN "post" ELSE "wait"
    [] p = "post" -> "wait"

afterCollect(p) == IF p = "start" THEN "wait" ELSE "lock"

reporterUnch == UNCHANGED <<updaters, rpc, ridx, rseen, fed>>
alertUnch == UNCHANGED <<alertCount, resolveCount, triggered, lastUpdate, hist, events>>
snapUnch == UNCHANGED <<previous, current, currentTotal, previousTotal, kernel>>

\* c.collect(), read succeeds: current becomes previous, fresh read becomes current
CollectOk ==
  /\ pc \in {"start", "collect"}
  /\ canLock(mux)
  /\ \E d \in Deltas :
       LET k == [i \in 1..4 |-> kernel[i] + d[i]]
       IN  /\ kernel' = k
           /\ previous' = current
           /\ previousTotal' = currentTotal
           /\ current' = k
           /\ currentTotal' = SumSeq(k)
  /\ pc' = afterCollect(pc)
  /\ readOk' = TRUE
  /\ UNCHANGED <<postResult, buffered>>
  /\ UNCHANGED <<cfg, idx, mux, averages, avg, now, ticks, failedBefore, added>>
  /\ alertUnch /\ reporterUnch

\* c.collect(), read fails: the panic is recovered and clear() runs
CollectFail ==
  /\ pc \in {"start", "collect"}
  /\ canLock(mux)
  /\ current' = clear.current
  /\ previous' = clear.previous
  /\ currentTotal' = clear.currentTotal
  /\ previousTotal' = clear.previousTotal
  /\ pc' = afterCollect(pc)
  /\ readOk' = FALSE
  /\ failedBefore' = TRUE
  /\ UNCHANGED <<postResult, buffered>>
  /\ UNCHANGED <<cfg, idx, mux, averages, avg, now, ticks, kernel, added>>
  /\ alertUnch /\ reporterUnch

\* for range time.Tick(cfg.SampleRate): a tick that fired while the loop
\* was busy waits in the channel and is received at once (later ones were
\* dropped); otherwise the loop blocks until the next tick is due and
\* receives it then or a little late
TickWithin(limit) ==
  /\ pc = "wait"
  /\ ticks < limit
  /\ IF buffered THEN now' = now
     ELSE \E late \in Latencies : now' = tickDue(now, cfg.SampleRate) + late
  /\ buffered' = FALSE
  /\ ticks' = ticks + 1
  /\ pc' = "collect"
  /\ postResult' = "none"
  /\ UNCHANGED <<cfg, idx, mux, averages, avg, readOk, failedBefore, added>>
  /\ alertUnch /\ reporterUnch /\ snapUnch

Tick == TickWithin(MaxTicks)
TickConc == TickWithin(MaxConcTicks)

\* c.mux.Lock() in the loop
Lock ==
  /\ pc = "lock"
  /\ canLock(mux)
  /\ mux' = "sampler"
  /\ pc' = "add"
  /\ idx' = 0
  /\ UNCHANGED <<postResult, buffered>>
  /\ UNCHANGED <<cfg, averages, avg, now, ticks, readOk, failedBefore, added>>
  /\ alertUnch /\ reporterUnch /\ snapUnch

\* c.averages[i].add(c.rate(i)) for the idx-th gauge
AddRate ==
  /\ pc = "add"
  /\ LET g == Gauges[idx + 1]
     IN  IF ratePanics(g, current, previous)
         THEN /\ pc' = "crashed"
              /\ UNCHANGED <<idx, averages, added>>
         ELSE IF addPanics(averages[g])
         THEN /\ pc' = "crashed"
              /\ averages' = [averages EXCEPT ![g] =
                   addFaulted(@, rate(g, current, previous, currentTotal, previousTotal))]
              /\ UNCHANGED <<idx, added>>
         ELSE /\ averages' = [averages EXCEPT ![g] =
                   add(@, rate(g, current, previous, currentTotal, previousTotal))]
              /\ added' = [added EXCEPT ![g] = @ + 1]
              /\ idx' = idx + 1
              /\ pc' = IF idx + 1 = Len(Gauges) THEN "avg" ELSE "add"
  /\ UNCHANGED <<cfg, mux, avg, now, ticks, readOk, failedBefore, rseen>>
  /\ UNCHANGED <<postResult, buffered, fed>>
  /\ alertUnch /\ UNCHANGED <<updaters, rpc, ridx>> /\ snapUnch

\* avg := c.averages[userGauge].movingAvg()
Avg ==
  /\ pc = "avg"
  /\ IF movingAvgPanics(averages[userGauge])
     THEN pc' = "crashed" /\ UNCHANGED avg
     ELSE avg' = movingAvg(averages[userGauge]) /\ pc' = succ(pc, FALSE)
  /\ UNCHANGED <<postResult, buffered>>
  /\ UNCHANGED <<cfg, idx, mux, averages, now, ticks, readOk, failedBefore, added>>
  /\ alertUnch /\ reporterUnch /\ snapUnch

\* c.mux.Unlock() in the loop
Unlock ==
  /\ pc = "unlock"
  /\ mux' = "none"
  /\ pc' = succ(pc, FALSE)
  /\ UNCHANGED <<postResult, buffered>>
  /\ UNCHANGED <<cfg, idx, averages, avg, now, ticks, readOk, failedBefore, added>>
  /\ alertUnch /\ reporterUnch /\ snapUnch

\* lines 147-157: saturating, mutually exclusive counters
breaching(a, threshold) == RGeq(a, threshold)

\* alertCount left alone by a non-breaching tick
nextAlertCountNoReset(ac, breach) ==
  IF breach THEN (IF ac < DebounceLimit THEN ac + 1 ELSE ac) ELSE ac

nextAlertCount(ac, breach) ==
  IF breach THEN (IF ac < DebounceLimit THEN ac + 1 ELSE ac) ELSE 0

\* resolveCount left alone by a breaching tick
nextResolveCountNoReset(rc, breach) ==
  IF breach THEN rc ELSE (IF rc < DebounceLimit THEN rc + 1 ELSE rc)

\* resolveCount that keeps counting past the limit
nextResolveCountUnclamped(rc, breach) ==
  IF breach THEN 0 ELSE rc + 1

nextResolveCount(rc, breach) ==
  IF breach THEN 0 ELSE (IF rc < DebounceLimit THEN rc + 1 ELSE rc)

\* a cooldown that is over as soon as the interval is reached
cooledDownInclusive(t, last, interval) == t - last >= interval

\* time.Since(lastUpdate) > cfg.SlackInterval
cooledDown(t, last, interval) == t - last > interval

\* a Resolved that does not ask for triggered
decisionNoTriggered(ac, rc, trig, cooled) ==
  IF ac = DebounceLimit /\ cooled THEN "alert"
  ELSE IF rc = DebounceLimit /\ cooled THEN "resolved"
  ELSE "none"

\* an Alert that is held back while triggered
decisionAlertOnce(ac, rc, trig, cooled) ==
  IF ~trig /\ ac = DebounceLimit /\ cooled THEN "alert"
  ELSE IF trig /\ rc = DebounceLimit /\ cooled THEN "resolved"
  ELSE "none"

\* a Resolved sent one calm tick early
decisionEarlyResolve(ac, rc, trig, cooled) ==
  IF ac = DebounceLimit /\ cooled THEN "alert"
  ELSE IF trig /\ rc >= DebounceLimit - 1 /\ cooled THEN "resolved"
  ELSE "none"

\* lines 159-167: which notification this tick dispatches
decision(ac, rc, trig, cooled) ==
  IF ac = DebounceLimit /\ cooled THEN "alert"
  ELSE IF trig /\ rc = DebounceLimit /\ cooled THEN "resolved"
  ELSE "none"

Decide ==
  /\ pc = "decide"
  /\ LET b == breaching(avg, cfg.Threshold)
         ac == nextAlertCount(alertCount, b)
         rc == nextResolveCount(resolveCount, b)
         ev == decision(ac, rc, triggered,
                        cooledDown(now, lastUpdate, ClockUnits(cfg.SlackInterval)))
     IN  /\ alertCount' = ac
         /\ resolveCount' = rc
         /\ hist' = IF Len(hist) < DebounceLimit THEN Append(hist, b)
                    ELSE Append(Tail(hist), b)
         /\ triggered' = IF ev = "alert" THEN TRUE
                         ELSE IF ev = "resolved" THEN FALSE ELSE triggered
         /\ lastUpdate' = IF ev = "none" THEN lastUpdate ELSE now
         /\ events' = IF ev = "none" THEN events
                      ELSE Append(events, [kind |-> ev, at |-> now, tick |-> ticks])
         /\ pc' = succ(pc, ev # "none")
  /\ UNCHANGED <<postResult, buffered>>
  /\ UNCHANGED <<cfg, idx, mux, averages, avg, now, ticks, readOk, failedBefore, added>>
  /\ reporterUnch /\ snapUnch

\* the ways one postSlack call can end: no slackURL (message printed),
\* json.Marshal error, PostForm error, message sent
PostOutcomes == {"printed", "marshal", "transport", "sent"}
PostErrors == {"marshal", "transport"}

\* a dispatch that panics on an error instead of logging it
postReturnsUnlessError(outcome) == outcome \notin PostErrors

\* every path of postSlack ends in a return: errors are printed and dropped
postReturns(outcome) == TRUE

\* c.postSlack(...) runs to its return, which takes the time the HTTP call
\* takes; ticks that fire meanwhile find the loop busy
Post ==
  /\ pc = "post"
  /\ \E o \in PostOutcomes :
       /\ postResult' = o
       /\ pc' = IF postReturns(o) THEN succ(pc, FALSE) ELSE "crashed"
  /\ \E d \in PostDelays :
       /\ now' = now + ClockUnits(d)
       /\ buffered' = (tickDue(now, cfg.SampleRate) <= now')
  /\ UNCHANGED <<cfg, idx, mux, averages, avg, ticks, readOk, failedBefore, added>>
  /\ alertUnch /\ reporterUnch /\ snapUnch

\* ------------------------------------------------- Reporter: CPU.Collect
samplerUnch == UNCHANGED <<cfg, pc, idx, averages, avg, now, ticks, readOk,
                           failedBefore, added, postResult, buffered, fed>>

RLock ==
  /\ pc # "crashed"
  /\ rpc = "idle"
  /\ canLock(mux)
  /\ mux' = "reporter"
  /\ rpc' = "update"
  /\ ridx' = 0
  /\ rseen' = <<>>
  /\ UNCHANGED updaters
  /\ samplerUnch /\ alertUnch /\ snapUnch

\* a Reporter that hands out the windowed average
gaugeValueWindowed(s) == movingAvg(s)

\* the value Collect passes to Update: the sample's expMovingAvg field
gaugeValue(s) == s.expMovingAvg

\* c.updaters[i].Update(c.averages[i].expMovingAvg) for the ridx-th gauge
RUpdate ==
  /\ pc # "crashed"
  /\ rpc = "update"
  /\ LET g == Gauges[ridx + 1]
     IN  /\ updaters' = [updaters EXCEPT ![g] = gaugeValue(averages[g])]
         /\ rseen' = Append(rseen, added[g])
  /\ ridx' = ridx + 1
  /\ rpc' = IF ridx + 1 = Len(Gauges) THEN "unlock" ELSE "update"
  /\ UNCHANGED mux
  /\ samplerUnch /\ alertUnch /\ snapUnch

RUnlock ==
  /\ pc # "crashed"
  /\ rpc = "unlock"
  /\ mux' = "none"
  /\ rpc' = "fill"
  /\ UNCHANGED <<updaters, ridx, rseen>>
  /\ samplerUnch /\ alertUnch /\ snapUnch

\* for _, u := range c.updaters { u.Fill(b) }
RFill ==
  /\ pc # "crashed"
  /\ rpc = "fill"
  /\ rpc' = "idle"
  /\ UNCHANGED <<mux, updaters, ridx, rseen>>
  /\ samplerUnch /\ alertUnch /\ snapUnch

\* the sampling goroutine on its own
Next ==
  \/ CollectOk \/ CollectFail \/ Tick \/ Lock \/ AddRate \/ Avg \/ Unlock
  \/ Decide \/ Post

Spec == Init /\ [][Next]_vars

\* the sampling goroutine beside a Reporter calling Collect at any time
NextConc ==
  \/ CollectOk \/ CollectFail \/ TickConc \/ Lock \/ AddRate \/ Avg \/ Unlock
  \/ Decide \/ Post
  \/ RLock \/ RUpdate \/ RUnlock \/ RFill

SpecConc == Init /\ [][NextConc]_vars

\* ------------------------------------------------------------ properties
Breach3 == <<TRUE, TRUE, TRUE>>
Calm3 == <<FALSE, FALSE, FALSE>>
LastKind == IF events = <<>> THEN "none" ELSE events[Len(events)].kind
\* more than the cooldown has passed since the last notification on record
PastCooldown ==
  events # <<>> => now - events[Len(events)].at > ClockUnits(cfg.SlackInterval)

\* the Decide step of this tick dispatched a notification of the given kind
Emits(kind) ==
  /\ Len(events') = Len(events) + 1
  /\ events'[Len(events')].kind = kind

\* C1: an Alert is emitted at a tick only if that tick and the two before it
\* were breaching and more than the cooldown has passed since the last
\* notification; two breaching ticks followed by a non-breaching one reset
\* alertCount to 0 and emit no Alert.
C1_AlertOnlyAfterThreeBreaches ==
  [][/\ Emits("alert") =>
          /\ hist' = Breach3
          /\ PastCooldown
     /\ (pc = "decide" /\ pc' # "decide" /\ alertCount = 2
           /\ ~RGeq(avg, cfg.Threshold)) =>
          /\ alertCount' = 0
          /\ ~Emits("alert")]_vars

\* an Alert is on record and a later run of two breaches was cut by a calm tick
C1_Witness ==
  /\ events # <<>> /\ events[1].kind = "alert"
  /\ hist = <<TRUE, TRUE, FALSE>>
  /\ alertCount = 0
  /\ pc = "wait"

\* C2: a Resolved is emitted at a tick only if triggered held before the tick,
\* the tick and the two before it were non-breaching and more than the
\* cooldown has passed since the last notification; triggered is then false.
C2_ResolvedOnlyWhenTriggered ==
  [][Emits("resolved") =>
       /\ triggered
       /\ hist' = Calm3
       /\ PastCooldown
       /\ ~triggered']_vars

C2_Witness ==
  /\ pc = "post"
  /\ LastKind = "resolved"
  /\ ~triggered

\* C3 as stated: no second Alert is emitted until a Resolved has been emitted
\* in between, however long the breach lasts.
C3_NoSecondAlert ==
  \A i \in 2..Len(events) :
    events[i].kind = "alert" => events[i - 1].kind = "resolved"

\* C3 amended: while triggered, a tick that leaves alertCount at 3 emits an
\* Alert exactly when more than the cooldown has passed since the last
\* notification; no Resolved is needed in between.
C3_RealertAfterCooldown ==
  [][(pc = "decide" /\ pc' # "decide" /\ triggered /\ alertCount' = DebounceLimit) =>
       (Emits("alert") <=> PastCooldown)]_vars

\* two Alerts in a row, and a saturated breach held back by the cooldown
C3_Witness ==
  /\ Len(events) >= 2
  /\ events[Len(events)].kind = "alert"
  /\ events[Len(events) - 1].kind = "alert"
  /\ cfg.SlackInterval >= 1
  /\ pc = "post"

\* C4: two successive notifications are more than the cooldown apart, and the
\* first one is not held back by the cooldown: whenever alertCount is 3 a
\* notification has been emitted.
C4_CooldownBetweenNotifications ==
  /\ \A i \in 2..Len(events) :
       events[i].at - events[i - 1].at > ClockUnits(cfg.SlackInterval)
  /\ alertCount = DebounceLimit => events # <<>>

\* the first Alert came no later than one cooldown after the start, and a
\* second notification followed it
C4_Witness ==
  /\ Len(events) >= 2
  /\ events[1].at - StartTime <= ClockUnits(cfg.SlackInterval)
  /\ cfg.SlackInterval >= 1

\* C5: both counters stay within 0..3, at most one of them is non-zero, and
\* both are zero only before the first evaluated tick.
C5_CountersExclusive ==
  /\ alertCount \in 0..3
  /\ resolveCount \in 0..3
  /\ alertCount = 0 \/ resolveCount = 0
  /\ (alertCount = 0 /\ resolveCount = 0) => hist = <<>>

\* a counter held at 3 by a fourth tick of the same kind, the other at 0
C5_Witness ==
  /\ ticks >= 4
  /\ hist = Breach3
  /\ alertCount = 3 /\ resolveCount = 0
  /\ pc = "wait"

\* C6: the values one Collect call hands to the gauges were all read from
\* averages that had received the same number of samples.
C6_ReporterSeesWholeTicks ==
  /\ \A i, j \in 1..Len(rseen) : rseen[i] = rseen[j]
  /\ rpc \in {"update", "unlock"} => pc \notin {"add", "avg", "unlock"}

\* the Reporter read all three averages while the sampler waited for the lock
C6_Witness ==
  /\ rpc = "unlock"
  /\ pc = "lock"
  /\ Len(rseen) = 3
  /\ rseen[1] >= 1

\* C7: while a notification dispatch runs the sampler does not hold the mutex.
C7_NoLockAcrossDispatch ==
  pc = "post" => mux # "sampler"

\* the Reporter holds the mutex while the dispatch is still running
C7_Witness ==
  /\ pc = "post"
  /\ mux = "reporter"
  /\ rpc = "update"

\* C8: a tick whose read succeeds after an earlier failed read runs to
\* completion without a fault.
C8_SelfHealing ==
  (failedBefore /\ readOk) => pc # "crashed"

\* C9: a tick whose counter read failed adds no sample to any average.
C9_FailedTickAddsNoSample ==
  [][(pc = "add" /\ ~readOk) => averages' = averages]_vars

\* C10: with fewer than two snapshots held, rate returns 0 without faulting
\* for every tracked category.
C10_RateZeroWithoutTwoSnapshots ==
  (pc = "add" /\ (current = <<>> \/ previous = <<>>)) =>
    \A i \in 1..Len(Gauges) :
      /\ ~ratePanics(Gauges[i], current, previous)
      /\ rate(Gauges[i], current, previous, currentTotal, previousTotal) = R(0)

\* ------------------------------------------------- the user sample alone
\* every positive SampleRate / ReportingInterval pair up to the bounds
\* whose alpha float64 holds exactly, with rings of at most MaxCapacity slots
RingConfigs ==
  {c \in [SampleRate : 1..MaxRingRate, ReportingInterval : 1..MaxInterval,
          Threshold : Thresholds, SlackInterval : {0}] :
     IsExact(cfgAlpha(c)) /\ Trunc(cfgRingSize(c)) <= MaxCapacity}
\* multiples of 3, so that the divisions by 3 of movingAvg are exact
RingValues == {R(0), R(3), R(9)}

\* New builds the samples from cfg; afterwards only add and movingAvg of the
\* user sample are called, in any order
InitRing ==
  /\ cfg \in RingConfigs
  /\ pc = "ring"
  /\ idx = 0
  /\ mux = "none"
  /\ previous = <<>> /\ current = <<>>
  /\ currentTotal = 0 /\ previousTotal = 0
  /\ averages = [g \in {userGauge, systemGauge, idleGauge} |->
                   IF g = userGauge THEN newSample(cfgAlpha(cfg), cfgRingSize(cfg))
                   ELSE newSample(cfgAlpha(cfg), R(1))]
  /\ updaters = [g \in {userGauge, systemGauge, idleGauge} |-> R(0)]
  /\ avg = R(0)
  /\ alertCount = 0 /\ resolveCount = 0
  /\ triggered = FALSE
  /\ lastUpdate = ZeroTime
  /\ now = StartTime
  /\ kernel = <<0, 0, 0, 0>>
  /\ rpc = "idle" /\ ridx = 0
  /\ ticks = 0 /\ readOk = FALSE /\ failedBefore = FALSE
  /\ hist = <<>> /\ events = <<>>
  /\ added = [g \in {userGauge, systemGauge, idleGauge} |-> 0]
  /\ rseen = <<>>
  /\ postResult = "none" /\ buffered = FALSE
  /\ fed = <<>>

ringUnch ==
  /\ UNCHANGED <<cfg, idx, mux, now, ticks, readOk, failedBefore, added, postResult,
                 buffered>>
  /\ UNCHANGED <<updaters, rpc, ridx, rseen>>
  /\ alertUnch /\ snapUnch

\* s.add(v) on the user sample
RingAdd ==
  /\ pc \in {"ring", "measured"}
  /\ Len(fed) < MaxAdds
  /\ \E v \in RingValues :
       IF addPanics(averages[userGauge])
       THEN /\ pc' = "crashed"
            /\ averages' = [averages EXCEPT ![userGauge] = addFaulted(@, v)]
            /\ UNCHANGED fed
       ELSE /\ averages' = [averages EXCEPT ![userGauge] = add(@, v)]
            /\ fed' = Append(fed, v)
            /\ pc' = "ring"
  /\ UNCHANGED avg
  /\ ringUnch

\* s.movingAvg() on the user sample
RingAvg ==
  /\ pc = "ring"
  /\ IF movingAvgPanics(averages[userGauge])
     THEN pc' = "crashed" /\ UNCHANGED avg
     ELSE avg' = movingAvg(averages[userGauge]) /\ pc' = "measured"
  /\ UNCHANGED <<averages, fed>>
  /\ ringUnch

NextRing == RingAdd \/ RingAvg

SpecRing == InitRing /\ [][NextRing]_vars

\* C11: a dispatch that ends in a marshal or transport error returns to the
\* loop with triggered and lastUpdate as the decision set them (the event
\* counts for the cooldown) and with the counters and averages untouched.
C11_FailedDispatchChangesNothing ==
  [][(pc = "post" /\ pc' # "post" /\ postResult' \in PostErrors) =>
       /\ pc' = "wait"
       /\ UNCHANGED <<triggered, lastUpdate, alertCount, resolveCount,
                      averages, events>>
       /\ lastUpdate = now
       /\ events[Len(events)].at = now
       /\ triggered = (LastKind = "alert")]_vars

\* an Alert whose dispatch failed in transport is on record and the loop
\* waits for its next tick
C11_Witness ==
  /\ pc = "wait"
  /\ postResult = "transport"
  /\ triggered
  /\ lastUpdate = now
  /\ ticks < MaxTicks

\* C12: Collect hands every gauge the expMovingAvg of that category's sample,
\* and no step of Collect changes a sample, a snapshot or the alert state.
C12_CollectReadsEmaOnly ==
  [][/\ rpc' = "unlock" =>
          \A i \in 1..Len(Gauges) :
            updaters'[Gauges[i]] = averages'[Gauges[i]].expMovingAvg
     /\ rpc' # rpc =>
          UNCHANGED <<averages, previous, current, currentTotal, previousTotal,
                      alertCount, resolveCount, triggered, lastUpdate, avg>>]_vars

\* the user gauge was updated while ema and windowed average differ
C12_Witness ==
  /\ rpc = "unlock"
  /\ added[userGauge] >= 2
  /\ updaters[userGauge] = averages[userGauge].expMovingAvg
  /\ updaters[userGauge] # movingAvg(averages[userGauge])

\* the only notification so far is the Alert of the third tick
AlertAtThird == Len(events) = 1 /\ events[1].kind = "alert" /\ events[1].tick = 3

\* C14: on a fresh engine three breaching ticks emit the Alert on the third
\* and not before; three non-breaching ticks after it emit nothing on the
\* first two (resolveCount 1, then 2) and the Resolved on the third, cooldown
\* permitting.
C14_AlertThenResolveScenario ==
  [][(pc = "decide" /\ pc' # "decide") =>
       /\ (ticks = 3 /\ hist' = Breach3) =>
            /\ events = <<>>
            /\ events' = <<[kind |-> "alert", at |-> now, tick |-> 3]>>
       /\ (ticks = 4 /\ AlertAtThird /\ hist' = <<TRUE, TRUE, FALSE>>) =>
            /\ events' = events
            /\ resolveCount' = 1
       /\ (ticks = 5 /\ AlertAtThird /\ hist' = <<TRUE, FALSE, FALSE>>) =>
            /\ events' = events
            /\ resolveCount' = 2
       /\ (ticks = 6 /\ AlertAtThird /\ hist' = Calm3
             /\ now - events[1].at > ClockUnits(cfg.SlackInterval)) =>
            /\ events' = Append(events, [kind |-> "resolved", at |-> now, tick |-> 6])]_vars

\* the scenario ran to its end: Alert on tick 3, Resolved on tick 6
C14_Witness ==
  /\ ticks = 6
  /\ pc = "post"
  /\ Len(events) = 2
  /\ events[1].kind = "alert" /\ events[1].tick = 3
  /\ events[2].kind = "resolved" /\ events[2].tick = 6

\* C19: with triggered set and resolveCount already at 3, a further
\* non-breaching tick keeps resolveCount at 3 and emits the Resolved exactly
\* when more than the cooldown has passed since the last notification.
C19_HeldResolveIsNotLost ==
  [][(pc = "decide" /\ pc' # "decide" /\ triggered
        /\ resolveCount = DebounceLimit /\ ~RGeq(avg, cfg.Threshold)) =>
       /\ resolveCount' = DebounceLimit
       /\ ~Emits("alert")
       /\ Emits("resolved") <=> PastCooldown]_vars

\* a recovery held back by the cooldown is about to be reported: the count
\* has been at 3 since an earlier tick and the cooldown is now over
C19_Witness ==
  /\ pc = "decide"
  /\ triggered
  /\ resolveCount = DebounceLimit
  /\ ~RGeq(avg, cfg.Threshold)
  /\ events # <<>>
  /\ now - events[Len(events)].at > ClockUnits(cfg.SlackInterval)

\* C20: the first notification is an Alert, a Resolved always follows an
\* Alert directly, and triggered holds exactly when the last notification is
\* an Alert.
C20_ResolvedFollowsAlert ==
  /\ events # <<>> => events[1].kind = "alert"
  /\ \A i \in 2..Len(events) :
       events[i].kind = "resolved" => events[i - 1].kind = "alert"
  /\ triggered <=> LastKind = "alert"

\* two Alerts, then the Resolved that ends them
C20_Witness ==
  /\ Len(events) = 3
  /\ events[1].kind = "alert"
  /\ events[2].kind = "alert"
  /\ events[3].kind = "resolved"
  /\ ~triggered

\* ------------------------------------------------ properties of a sample
userSample == averages[userGauge]
effectiveLen(s) == IF s.filled THEN Len(s.values) ELSE s.position

\* ema_1 = v_1, ema_k = v_k * alpha + ema_(k-1) * (1 - alpha)
RECURSIVE RefEma(_, _)
RefEma(vs, alpha) ==
  IF Len(vs) = 1 THEN vs[1]
  ELSE LET k == Len(vs)
       IN  RAdd(RMul(vs[k], alpha),
                RMul(RefEma(SubSeq(vs, 1, k - 1), alpha), RSub(R(1), alpha)))

\* C13: for every capacity >= 1 the ema after the k-th add is v_1 for k = 1
\* and v_k * alpha + ema_(k-1) * (1 - alpha) after it, also once the ring has
\* wrapped.
C13_EmaRecurrence ==
  (Len(userSample.values) >= 1 /\ fed # <<>>) =>
    userSample.expMovingAvg = RefEma(fed, cfgAlpha(cfg))

\* a ring of capacity 1, wrapped by every add, whose ema is not the last value
C13_Witness ==
  /\ Len(userSample.values) = 1
  /\ Len(fed) >= 3
  /\ userSample.filled /\ userSample.position = 0
  /\ userSample.expMovingAvg # fed[Len(fed)]

\* the slots movingAvg reads: values[i : i+subSet] for i in 0..toRange
ReadSlots(s) ==
  UNION {{j \in i..(i + subSetOf(s) - 1) : TRUE} : i \in 0..toRangeOf(s)}

\* C15: movingAvg reads only slots below writePos while the ring is not
\* filled, and only slots below the capacity once it is.
C15_WindowsInsidePopulated ==
  Len(userSample.values) >= 1 =>
    ReadSlots(userSample) \subseteq 0..(effectiveLen(userSample) - 1)

\* movingAvg has run on a ring that is partly written
C15_Witness ==
  /\ pc = "measured"
  /\ ~userSample.filled
  /\ userSample.position >= 2
  /\ userSample.position + 2 <= Len(userSample.values)
  /\ ReadSlots(userSample) = 0..(userSample.position - 1)

\* C16: movingAvg on a sample that has received no value returns 0, for
\* capacity 0 and for capacity >= 1.
C16_EmptyAverageIsZero ==
  (pc = "measured" /\ fed = <<>>) => avg = R(0)

\* round to the nearest integer, for a >= 0
RoundNearest(a) == (2 * a[1] + a[2]) \div (2 * a[2])

\* C17: the user sample is built with capacity round(reportingInterval /
\* sampleRate), at least 1, and add on it never faults.
C17_CapacityRoundedAndPositive ==
  /\ Len(userSample.values) =
       RoundNearest(<<cfg.ReportingInterval, cfg.SampleRate>>)
  /\ Len(userSample.values) >= 1
  /\ pc # "crashed"

\* the plain average, over i = 0..halfRange, of the plain averages of
\* values[i .. i+halfCount), each computed as sum / count
RefWindowed(s) ==
  LET n == effectiveLen(s)
      halfCount == (n + 1) \div 2
      halfRange == n \div 2
      plainAvg(vs) == RDiv(RSumSeq(vs), R(Len(vs)))
      window(i) == [j \in 1..halfCount |-> s.values[i + j]]
  IN  plainAvg([k \in 1..(halfRange + 1) |-> plainAvg(window(k - 1))])

\* C18: with at least one value held, movingAvg is the average over
\* i = 0..halfRange of the averages of values[i .. i+halfCount).
C18_MovingAvgIsReference ==
  (pc = "measured" /\ Len(userSample.values) >= 1 /\ effectiveLen(userSample) >= 1) =>
    avg = RefWindowed(userSample)

\* a full ring of four slots measured (three windows of two), where the
\* result is not the plain mean of the ring
C18_Witness ==
  /\ pc = "measured"
  /\ userSample.filled
  /\ Len(userSample.values) = 4
  /\ avg # RDiv(RSumSeq(userSample.values), R(4))

\* every float64 the engine holds is one this model follows exactly
Float64Exact ==
  LET Held(a) == IsExact(a) \/ IsNaN(a)
  IN  /\ \A g \in DOMAIN averages :
           /\ IsExact(averages[g].alpha)
           /\ Held(averages[g].expMovingAvg)
           /\ \A i \in 1..Len(averages[g].values) : Held(averages[g].values[i])
      /\ Held(avg)
      /\ \A g \in DOMAIN updaters : Held(updaters[g])
====
